---- MODULE Spec2Model ----
(***************************************************************************)
(* Model of the generic finite state machine engine, detail_fsm::FsmBase   *)
(* (fsm_base.h, found in src/include/lwiot/avr/avrspibus.h).               *)
(*                                                                         *)
(* The engine's step operation is FsmBase::transition() (protected, no     *)
(* arguments).  A state handler runs while the (recursive) engine lock is  *)
(* held and may call FsmBase::transition(event, args) back into the        *)
(* engine; the position of the running handler is the variable pc.  Every  *)
(* other operation runs under the lock from call to return and is one      *)
(* action.                                                                 *)
(*                                                                         *)
(* Dereferencing a null ReferenceWrapper fails an assertion                *)
(* (referencewrapper.h) or, with assertions compiled out, reads whatever   *)
(* lies behind the null pointer: both outcomes are modelled.  Parent       *)
(* chains of the automata are acyclic and name registered states.          *)
(*                                                                         *)
(* Spec runs the engine on a set of built automata; BuildSpec runs the     *)
(* builder methods (addState, addStates, addTransition, addAlphabetSymbol, *)
(* addStopState, addStopStates) on a freshly constructed engine.           *)
(* RaceSpec adds the builder methods that take no lock to the running     *)
(* traffic light, CopySpec the copy constructor, LockSpec follows the     *)
(* locks of two engines that two threads copy, move and swap.  GuardSpec  *)
(* runs the traffic light with every choice of guards on its rows,        *)
(* CheckedSpec the automata with start(true) as the only way to start,    *)
(* LookupSpec the walks of lookup and accept up the parent chain pass by  *)
(* pass, and LiveSpec the traffic light under a driver that keeps         *)
(* stepping.                                                               *)
(***************************************************************************)
EXTENDS Integers, Sequences, FiniteSets, TLC

(* ------------------------------ bounds -------------------------------- *)

\* Longest event queue the callers build up.
MaxQueue == 2

\* Most transition(event, args) calls one handler invocation makes.
MaxHandlerCalls == 2

\* Longest stop state list the builder calls make.
MaxStopStates == 2

\* Longest list handed to addStates and addStopStates.
MaxList == 2

(* ------------------------------ inputs -------------------------------- *)

\* Event symbols used by the callers.
Events == {1, 2}

\* Handler argument values.
Args == {0, 1}

(* --------------------------- value domains ----------------------------- *)

Stopped == "Stopped"
Running == "Running"
Error == "Error"
Fault == "Fault"
StateChanged == "StateChanged"
StateUnchanged == "StateUnchanged"

FsmStatus == {StateUnchanged, StateChanged, Fault, Error, Stopped, Running}

\* A default constructed Transition: no event, no next state, no guard.
Transition0 == [event |-> 0, next |-> 0, guard |-> "none"]

Transition(event, next, guard) == [event |-> event, next |-> next, guard |-> guard]

\* A State: its id, its parent id (0 = none) and whether m_action is set.
State(id, parent, action) == [id |-> id, parent |-> parent, action |-> action]

\* The SttIndex union: stateId is the low half, eventId the high half of
\* the 64 bit integer; the integer is kept as the pair of its halves.
SttIndex(stateId, eventId) == <<stateId, eventId>>

(* ----------------------- building an engine ---------------------------- *)

\* The engine as the constructors leave it.
FsmBase0 ==
    [m_stt |-> << >>, m_states |-> << >>, m_stop_states |-> << >>,
     m_start_state |-> 0, m_error_state |-> 0, m_alphabet |-> {}]

\* Mutant of updateAlphabet: the alphabet is left alone.
updateAlphabet_never(f, transition) == f

updateAlphabet(f, transition) ==
    IF transition.event \in f.m_alphabet
    THEN f
    ELSE [f EXCEPT !.m_alphabet = @ \cup {transition.event}]

\* Mutant of emplace: the value of a key that is present is replaced.
emplace_overwrite(map, key, value) ==
    [k \in DOMAIN map \cup {key} |-> IF k = key THEN value ELSE map[k]]

\* emplace() of the map: inserts only when the key is absent.
emplace(map, key, value) ==
    IF key \in DOMAIN map
    THEN map
    ELSE [k \in DOMAIN map \cup {key} |-> IF k = key THEN value ELSE map[k]]

addTransition(f, state, transition) ==
    LET g == updateAlphabet(f, transition)
    IN  [g EXCEPT !.m_stt = emplace(@, SttIndex(state, transition.event), transition)]

addState(f, state) ==
    IF state.id \in DOMAIN f.m_states
    THEN f
    ELSE [f EXCEPT !.m_states = emplace(@, state.id, state)]

setStartState(f, id) ==
    IF id \notin DOMAIN f.m_states THEN f ELSE [f EXCEPT !.m_start_state = id]

setErrorState(f, id) ==
    IF id \notin DOMAIN f.m_states THEN f ELSE [f EXCEPT !.m_error_state = id]

addStopState(f, state) ==
    IF state \notin DOMAIN f.m_states
    THEN f
    ELSE [f EXCEPT !.m_stop_states = Append(@, state)]

\* What the add methods return.
addTransitionReturns(f, state, transition) ==
    SttIndex(state, transition.event) \notin DOMAIN f.m_stt

addStateReturns(f, state) == state.id \notin DOMAIN f.m_states

addStopStateReturns(f, state) == state \in DOMAIN f.m_states

addAlphabetSymbol(f, event) == [f EXCEPT !.m_alphabet = @ \cup {event}]

addAlphabetSymbolReturns(f, event) == event \notin f.m_alphabet

\* addStates(states): the engine it leaves and what it returns.  The loop
\* returns at the first id that is registered already.
RECURSIVE addStates(_, _)
addStates(f, states) ==
    IF states = << >>
    THEN [f |-> f, ret |-> TRUE]
    ELSE IF Head(states).id \in DOMAIN f.m_states
         THEN [f |-> f, ret |-> FALSE]
         ELSE addStates([f EXCEPT !.m_states = emplace(@, Head(states).id, Head(states))],
                        Tail(states))

\* Mutant of addStopStates: the two loops merged into one.
RECURSIVE addStopStates_merged(_, _)
addStopStates_merged(f, states) ==
    IF states = << >>
    THEN [f |-> f, ret |-> TRUE]
    ELSE IF Head(states) \notin DOMAIN f.m_states
         THEN [f |-> f, ret |-> FALSE]
         ELSE addStopStates_merged([f EXCEPT !.m_stop_states = Append(@, Head(states))],
                                   Tail(states))

\* addStopStates(states): a first loop over all ids, then a second that
\* appends them.
addStopStates(f, states) ==
    IF \E i \in DOMAIN states : states[i] \notin DOMAIN f.m_states
    THEN [f |-> f, ret |-> FALSE]
    ELSE [f |-> [f EXCEPT !.m_stop_states = @ \o states], ret |-> TRUE]

\* copy(other), called on the engine f: every member but m_alphabet (and
\* the lock, the stop event and the watchdog) is assigned from other.
copy(f, other) ==
    [f EXCEPT !.m_stt = other.m_stt,
              !.m_states = other.m_states,
              !.m_stop_states = other.m_stop_states,
              !.m_start_state = other.m_start_state,
              !.m_error_state = other.m_error_state]

RECURSIVE addStatesOf(_, _)
addStatesOf(f, states) ==
    IF states = << >> THEN f ELSE addStatesOf(addState(f, Head(states)), Tail(states))

RECURSIVE addTransitionsOf(_, _)
addTransitionsOf(f, rows) ==
    IF rows = << >>
    THEN f
    ELSE addTransitionsOf(
             addTransition(f, Head(rows)[1], Transition(Head(rows)[2], Head(rows)[3], Head(rows)[4])),
             Tail(rows))

\* An engine built by the builder methods: states, rows <<state, event,
\* next, guard>>, then the start, stop and error states.
Build(states, rows, start, stop, error) ==
    setErrorState(
        addStopState(
            setStartState(addTransitionsOf(addStatesOf(FsmBase0, states), rows), start),
            stop),
        error)

(* ------------------------------ automata ------------------------------- *)

\* S1, the traffic light: G=1, Y=2, R=3 on tick=1; start G, stop R, error G.
TrafficLight ==
    Build(<<State(1, 0, TRUE), State(2, 0, TRUE), State(3, 0, TRUE)>>,
          <<<<1, 1, 2, "none">>, <<2, 1, 3, "none">>, <<3, 1, 1, "none">>>>,
          1, 3, 1)

\* S3, hierarchical fall-through: 3 is a child of 2, 2 a child of 1; rows on
\* the ancestors only for event 2; error state 3 is stop state as well.
Hierarchy ==
    Build(<<State(1, 0, TRUE), State(2, 1, TRUE), State(3, 2, TRUE)>>,
          <<<<1, 1, 2, "none">>, <<1, 2, 3, "true">>, <<2, 1, 3, "false">>>>,
          1, 3, 3)

\* A start state and an error state without handler; two events; the
\* error state 3 is a child of 1 and finds no row on event 2.
NoHandlers ==
    Build(<<State(1, 0, FALSE), State(2, 0, TRUE), State(3, 1, FALSE)>>,
          <<<<1, 1, 2, "none">>, <<2, 1, 2, "none">>, <<2, 2, 1, "none">>>>,
          1, 2, 3)

\* An automaton that valid() rejects: state 2 has a handler and no row on
\* event 2; no error state is set.
Incomplete ==
    Build(<<State(1, 0, TRUE), State(2, 0, TRUE)>>,
          <<<<1, 1, 2, "none">>, <<1, 2, 1, "none">>, <<2, 1, 1, "none">>>>,
          1, 2, 0)

\* Complete rows, and neither start, stop nor error state set.
Unset ==
    Build(<<State(1, 0, TRUE), State(2, 0, TRUE)>>,
          <<<<1, 1, 2, "none">>, <<2, 1, 1, "none">>>>,
          0, 0, 0)

\* S4: B=2 is a child of A=1 and both have a direct row on event 1.
Epsilon ==
    Build(<<State(1, 0, TRUE), State(2, 1, TRUE)>>,
          <<<<1, 1, 2, "none">>, <<2, 1, 1, "none">>>>,
          1, 2, 1)

\* One state with its row; start and error state set, no stop state.
NoStop ==
    Build(<<State(1, 0, TRUE)>>, <<<<1, 1, 1, "none">>>>, 1, 0, 1)

Automata == {TrafficLight, Hierarchy, NoHandlers, Incomplete, Unset, Epsilon, NoStop, FsmBase0}

(* ------------------------------- state --------------------------------- *)

VARIABLES
    m_stt,            \* state transition table: SttIndex -> Transition
    m_states,         \* state map: id -> State
    m_stop_states,    \* stop state list (ids of the referenced states)
    m_start_state,    \* start state reference (0 = unset)
    m_error_state,    \* error state reference (0 = unset)
    m_alphabet,       \* alphabet
    m_current,        \* current state id
    m_status,         \* latched status
    m_events,         \* event queue: records [event, args, front]
    m_in_transition,  \* transition indicator
    pc,               \* "idle", "handler" (a state handler is running inside
                      \* transition()), or "aborted" (assertion failure)
    trace,            \* what the running transition() call, or the last call if it
                      \* was transition(), did
    last,             \* the last call made and what it returned: [op, ret, ...]
    m_stop_event,     \* the thread inside stop(true): "none", "waiting" in
                      \* m_stop_event.wait(lock), or "signalled" (woken, the
                      \* lock not yet taken again)
    sync              \* two engines and two threads that copy, move and swap
                      \* them: the owners of the locks, the calls in progress

config == <<m_stt, m_states, m_stop_states, m_start_state, m_error_state, m_alphabet>>

vars == <<m_stt, m_states, m_stop_states, m_start_state, m_error_state, m_alphabet,
          m_current, m_status, m_events, m_in_transition, pc, trace, last,
          m_stop_event, sync>>

\* The record m_events holds for an event; front records which of
\* transition (TRUE) and raise (FALSE) enqueued it.
Event(event, args, front) == [event |-> event, args |-> args, front |-> front]

Event0 == Event(0, 0, FALSE)

\* A thread outside copy, move and swap.
Idle0 == [op |-> "none", a |-> 0, b |-> 0, first |-> 0, second |-> 0, held |-> 0]

\* from: m_current at the call; event: the dequeued record; second, next:
\* what lookup found; invoked: the states whose handlers ran, in order;
\* passed: the arguments each of them was invoked with;
\* rets: what the handler's transition(event, args) calls returned;
\* success: what the destination's handler returned ("none": no handler);
\* signal: m_stop_event was signalled; wdt: the watchdog was reset.
Trace0 ==
    [from |-> 0, event |-> Event0, second |-> FALSE, next |-> 0,
     invoked |-> << >>, passed |-> << >>, rets |-> << >>, success |-> "",
     signal |-> FALSE, wdt |-> FALSE]

\* No lock is held and no thread is inside copy, move or swap.
Sync0 == [m_lock |-> [engine \in {1, 2} |-> 0], call |-> [thread \in {1, 2} |-> Idle0]]

Init ==
    /\ \E f \in Automata :
        /\ m_stt = f.m_stt
        /\ m_states = f.m_states
        /\ m_stop_states = f.m_stop_states
        /\ m_start_state = f.m_start_state
        /\ m_error_state = f.m_error_state
        /\ m_alphabet = f.m_alphabet
    /\ m_current = 0
    /\ m_status = Stopped
    /\ m_events = << >>
    /\ m_in_transition = FALSE
    /\ pc = "idle"
    /\ trace = Trace0
    /\ last = [op |-> "FsmBase"]
    /\ m_stop_event = "none"
    /\ sync = Sync0

(* ----------------------------- queries --------------------------------- *)

running(status) == status = Running

\* Mutant of lookup: the parent chain is not climbed.
lookup_directOnly(state, event) ==
    IF SttIndex(state.id, event) \in DOMAIN m_stt
    THEN [first |-> m_stt[SttIndex(state.id, event)], second |-> TRUE]
    ELSE [first |-> Transition0, second |-> FALSE]

\* Mutant of lookup: a row whose guard returns false counts as a miss.
lookup_guarded(state, event) ==
    IF SttIndex(state.id, event) \in DOMAIN m_stt
           /\ m_stt[SttIndex(state.id, event)].guard # "false"
    THEN [first |-> m_stt[SttIndex(state.id, event)], second |-> TRUE]
    ELSE [first |-> Transition0, second |-> FALSE]

\* lookup(state, event): the direct row, else the parent's, recursively.
RECURSIVE lookup(_, _)
lookup(state, event) ==
    IF SttIndex(state.id, event) \in DOMAIN m_stt
    THEN [first |-> m_stt[SttIndex(state.id, event)], second |-> TRUE]
    ELSE IF state.parent = 0
         THEN [first |-> Transition0, second |-> FALSE]
         ELSE lookup(m_states[state.parent], event)

\* Mutant of acceptLoop: the parent chain is not climbed.
acceptLoop_noParent(state, event) ==
    \E index \in DOMAIN m_stt : index = SttIndex(state.id, event)

\* The do-while loop of accept(): one pass per state of the parent chain.
RECURSIVE acceptLoop(_, _)
acceptLoop(state, event) ==
    IF \E index \in DOMAIN m_stt : index = SttIndex(state.id, event)
    THEN TRUE
    ELSE IF state.parent = 0
         THEN FALSE
         ELSE acceptLoop(m_states[state.parent], event)

\* accept(event), evaluated with the given m_status and m_current.
accept(status, current, event) ==
    IF ~running(status) THEN FALSE ELSE acceptLoop(m_states[current], event)

\* Mutant of isStopState: no state is found in the list.
isStopState_never(state) == FALSE

isStopState(state) ==
    \E i \in 1..Len(m_stop_states) : m_stop_states[i] = state

\* Mutant of deterministic: a state without handler needs its rows too.
deterministic_anyState ==
    \A id \in DOMAIN m_states : \A symbol \in m_alphabet :
        lookup(m_states[id], symbol).second

\* deterministic(): every state with a handler has a row, its own or an
\* ancestor's, on every symbol.  The symbols come from m_alphabet, a set,
\* so accepts.insert(symbol) never meets a symbol twice.
deterministic ==
    \A id \in DOMAIN m_states : \A symbol \in m_alphabet :
        ~(~lookup(m_states[id], symbol).second /\ m_states[id].action)

\* Mutant of valid: the status is not looked at.
valid_anyStatus ==
    /\ DOMAIN m_states # {}
    /\ m_start_state # 0 /\ Len(m_stop_states) # 0
    /\ m_error_state # 0
    /\ deterministic

valid ==
    /\ m_status = Running \/ m_status = Stopped
    /\ DOMAIN m_states # {}
    /\ m_start_state # 0 /\ Len(m_stop_states) # 0
    /\ m_error_state # 0
    /\ deterministic

(* ---------------------------- operations ------------------------------- *)

\* Mutants of addEvent: every event at the front; every event at the back.
addEvent_front(events, event, args, front) ==
    <<Event(event, args, front)>> \o events

addEvent_back(events, event, args, front) ==
    Append(events, Event(event, args, front))

addEvent(events, event, args, front) ==
    IF front
    THEN <<Event(event, args, front)>> \o events
    ELSE Append(events, Event(event, args, front))

\* Mutants of startReturns: the check not negated; no check at all.
startReturns_unnegated(check) == check /\ valid

startReturns_never(check) == FALSE

\* The early return of start(check).
startReturns(check) == check /\ ~valid

\* start(check).  A null m_start_state fails the assertion of
\* ReferenceWrapper::operator-> or, with assertions compiled out, yields
\* whatever id is read through the null pointer.
start(check) ==
    /\ pc = "idle"
    /\ IF startReturns(check)
       THEN /\ last' = [op |-> "start", check |-> check, passed |-> FALSE, from |-> m_status]
            /\ UNCHANGED <<m_current, m_status, pc>>
       ELSE \E id \in (IF m_start_state = 0 THEN DOMAIN m_states \cup {0} ELSE {m_start_state}) :
                IF id = 0
                THEN /\ pc' = "aborted"
                     /\ last' = [op |-> "abort"]
                     /\ UNCHANGED <<m_current, m_status>>
                ELSE /\ m_current' = id
                     /\ m_status' = Running
                     /\ last' = [op |-> "start", check |-> check, passed |-> TRUE, from |-> m_status]
                     /\ UNCHANGED pc
    /\ trace' = Trace0
    /\ UNCHANGED <<config, m_events, m_in_transition>>
    /\ UNCHANGED <<m_stop_event, sync>>

\* valid() and deterministic(), called from outside a handler.
Valid ==
    /\ pc = "idle"
    /\ last' = [op |-> "valid", from |-> m_status, ret |-> valid]
    /\ trace' = Trace0
    /\ UNCHANGED <<config, m_current, m_status, m_events, m_in_transition, pc>>
    /\ UNCHANGED <<m_stop_event, sync>>

Deterministic ==
    /\ pc = "idle"
    /\ last' = [op |-> "deterministic", from |-> m_status, ret |-> deterministic]
    /\ trace' = Trace0
    /\ UNCHANGED <<config, m_current, m_status, m_events, m_in_transition, pc>>
    /\ UNCHANGED <<m_stop_event, sync>>

halt ==
    /\ pc = "idle"
    /\ m_status' = IF ~running(m_status) THEN m_status ELSE Stopped
    /\ last' = [op |-> "halt"]
    /\ trace' = Trace0
    /\ UNCHANGED <<config, m_current, m_events, m_in_transition, pc>>
    /\ UNCHANGED <<m_stop_event, sync>>

\* stop(recurse) without waiting on m_stop_event.
\* Mutant of wait: the woken stop(true) returns true without a check.
wait_returnsTrue ==
    /\ pc = "idle"
    /\ m_stop_event = "signalled"
    /\ m_stop_event' = "none"
    /\ last' = [op |-> "stop", from |-> m_status, waited |-> TRUE, ret |-> TRUE]
    /\ trace' = Trace0
    /\ UNCHANGED <<config, m_current, m_status, m_events, m_in_transition, pc, sync>>

\* The body of stop(recurse), the lock held.  waited: the call is the
\* stop(false) that stop(true) makes after m_stop_event.wait(lock).
stopBody(recurse, waited) ==
    /\ IF ~running(m_status)
       THEN /\ last' = [op |-> "stop", from |-> m_status, waited |-> waited, ret |-> TRUE]
            /\ m_stop_event' = IF waited THEN "none" ELSE m_stop_event
            /\ UNCHANGED <<m_status, pc>>
       ELSE \E error \in (IF m_error_state = 0 THEN DOMAIN m_states \cup {0} ELSE {m_error_state}) :
                IF error = 0
                THEN /\ pc' = "aborted"
                     /\ last' = [op |-> "abort"]
                     /\ UNCHANGED <<m_status, m_stop_event>>
                ELSE IF recurse /\ ~(m_current = error \/ isStopState(m_current))
                     THEN /\ m_stop_event' = "waiting"
                          /\ last' = [op |-> "wait", from |-> m_status]
                          /\ UNCHANGED <<m_status, pc>>
                     ELSE /\ m_status' = IF m_current = error \/ isStopState(m_current)
                                         THEN Stopped ELSE m_status
                          /\ last' = [op |-> "stop", from |-> m_status, waited |-> waited,
                                      ret |-> (m_current = error \/ isStopState(m_current))]
                          /\ m_stop_event' = IF waited THEN "none" ELSE m_stop_event
                          /\ UNCHANGED pc
    /\ trace' = Trace0
    /\ UNCHANGED <<config, m_current, m_events, m_in_transition, sync>>

\* stop(recurse), called while no other thread waits in stop(true).
stop(recurse) ==
    /\ pc = "idle"
    /\ recurse => m_stop_event = "none"
    /\ stopBody(recurse, FALSE)

\* m_stop_event.wait(lock) returns in the thread that called stop(true):
\* it holds the lock again and returns what stop(false) returns.
wait ==
    /\ pc = "idle"
    /\ m_stop_event = "signalled"
    /\ stopBody(FALSE, TRUE)

\* Mutant of raiseReturns: raise never refuses an event.
raiseReturns_never(event) == FALSE

\* The early return of raise(event, args).
raiseReturns(event) == ~accept(m_status, m_current, event)

\* raise(event, args), called by an external entity.
raise(event, args) ==
    /\ pc = "idle"
    /\ ~raiseReturns(event) => Len(m_events) < MaxQueue
    /\ IF raiseReturns(event)
       THEN /\ last' = [op |-> "raise", ret |-> FALSE, event |-> event]
            /\ UNCHANGED m_events
       ELSE /\ m_events' = addEvent(m_events, event, args, FALSE)
            /\ last' = [op |-> "raise", ret |-> TRUE, event |-> event]
    /\ trace' = Trace0
    /\ UNCHANGED <<config, m_current, m_status, m_in_transition, pc>>
    /\ UNCHANGED <<m_stop_event, sync>>

\* Mutant of transitionReturns: m_in_transition is not looked at.
transitionReturns_noFlag(event) == ~accept(m_status, m_current, event)

\* Mutant of transitionReturns: inside a handler, accept looks at the
\* state the running transition() call started from.
transitionReturns_fromState(event) ==
    ~accept(m_status, IF pc = "handler" THEN trace.from ELSE m_current, event)
        \/ m_in_transition

\* The early return of transition(event, args).
transitionReturns(event) == ~accept(m_status, m_current, event) \/ m_in_transition

\* transition(event, args), called by the running state handler
\* (pc = "handler") or from outside a handler (pc = "idle").
transition(event, args) ==
    /\ pc = "idle" \/ pc = "handler"
    /\ pc = "handler" => Len(trace.rets) < MaxHandlerCalls
    /\ (pc = "idle" /\ ~transitionReturns(event)) => Len(m_events) < MaxQueue
    /\ IF transitionReturns(event)
       THEN /\ last' = [op |-> "transition", ret |-> FALSE, event |-> event]
            /\ UNCHANGED <<m_events, m_in_transition>>
       ELSE /\ m_events' = addEvent(m_events, event, args, TRUE)
            /\ m_in_transition' = TRUE
            /\ last' = [op |-> "transition", ret |-> TRUE, event |-> event]
    /\ trace' = IF pc = "handler"
                THEN [trace EXCEPT !.rets = Append(@, ~transitionReturns(event))]
                ELSE Trace0
    /\ UNCHANGED <<config, m_current, m_status, pc>>
    /\ UNCHANGED <<m_stop_event, sync>>

\* The assertion of a null reference or pointer failed: the program ended.
Abort(tr) ==
    /\ pc' = "aborted"
    /\ trace' = tr
    /\ last' = [op |-> "abort"]
    /\ UNCHANGED <<m_current, m_status, m_in_transition>>

\* Mutant of toErrorState: m_status is left as it is.
toErrorState_noStatus(tr) ==
    IF m_error_state = 0
    THEN Abort(tr)
    ELSE /\ m_current' = m_error_state
         /\ trace' = [tr EXCEPT !.signal = TRUE]
         /\ last' = [op |-> "step", ret |-> Fault]
         /\ m_in_transition' = FALSE
         /\ pc' = "idle"
         /\ UNCHANGED m_status

\* Mutant of toErrorState: the handler of the error state gets the
\* arguments that were moved into the handler of the destination.
toErrorState_movedArgs(tr) ==
    IF m_error_state = 0
    THEN Abort(tr)
    ELSE /\ m_current' = m_error_state
         /\ m_status' = Error
         /\ trace' = [tr EXCEPT !.signal = TRUE,
                                !.invoked = Append(@, m_error_state),
                                !.passed = Append(@, Event0.args)]
         /\ last' = [op |-> "step", ret |-> Fault]
         /\ m_in_transition' = FALSE
         /\ pc' = "idle"

\* toErrorState(args) and the rest of the failure branch of
\* transition(event, args, indices), then the tail of transition().
\* The arguments are those of copy, the ArgumentWrapper made from args
\* before args was moved into the handler of the destination.
\* Invoking the empty handler of an error state without handler either
\* ends the program or does nothing, as the Function wrapper decides.
toErrorState(tr) ==
    IF m_error_state = 0
    THEN Abort(tr)
    ELSE \E returns \in (IF m_states[m_error_state].action THEN {TRUE} ELSE BOOLEAN) :
            IF ~returns
            THEN Abort(tr)
            ELSE /\ m_current' = m_error_state
                 /\ m_status' = Error
                 /\ trace' = [tr EXCEPT !.signal = TRUE,
                                        !.invoked = IF m_states[m_error_state].action
                                                    THEN Append(@, m_error_state) ELSE @,
                                        !.passed = IF m_states[m_error_state].action
                                                   THEN Append(@, tr.event.args) ELSE @]
                 /\ last' = [op |-> "step", ret |-> Fault]
                 /\ m_in_transition' = FALSE
                 /\ pc' = "idle"

\* Mutant of Finish: a successful transition falls back to the state it left.
Finish_noAdvance(tr, success) ==
    IF ~success
    THEN toErrorState(tr)
    ELSE /\ m_current' = tr.from
         /\ trace' = [tr EXCEPT !.signal = isStopState(tr.next)]
         /\ last' = [op |-> "step", ret |-> StateChanged]
         /\ m_in_transition' = FALSE
         /\ pc' = "idle"
         /\ UNCHANGED m_status

\* Mutant of Finish: the value returned is stored in m_status as well.
Finish_latchesReturn(tr, success) ==
    IF ~success
    THEN toErrorState(tr)
    ELSE /\ m_current' = tr.next
         /\ trace' = [tr EXCEPT !.signal = isStopState(tr.next)]
         /\ last' = [op |-> "step", ret |-> StateChanged]
         /\ m_in_transition' = FALSE
         /\ pc' = "idle"
         /\ m_status' = StateChanged

\* transition(event, args, indices) from the handler's return value on,
\* then the tail of transition().
Finish(tr, success) ==
    IF ~success
    THEN toErrorState(tr)
    ELSE /\ m_current' = tr.next
         /\ trace' = [tr EXCEPT !.signal = isStopState(tr.next)]
         /\ last' = [op |-> "step", ret |-> StateChanged]
         /\ m_in_transition' = FALSE
         /\ pc' = "idle"
         /\ UNCHANGED m_status

\* transition(event, args, indices) up to the invocation of the handler of
\* the destination state.  A lookup miss leaves the transition reference
\* null: transition->next() fails its assertion (next = 0 below) or reads
\* some id through the null pointer.
Dispatch(value) ==
    IF ~running(m_status)
    THEN /\ trace' = [Trace0 EXCEPT !.from = m_current, !.event = value, !.wdt = TRUE]
         /\ m_in_transition' = FALSE
         /\ last' = [op |-> "step", ret |-> m_status]
         /\ UNCHANGED <<m_current, m_status, pc>>
    ELSE LET result == lookup(m_states[m_current], value.event)
         IN  \E next \in (IF result.second THEN {result.first.next}
                                           ELSE DOMAIN m_states \cup {0}) :
                LET tr == [Trace0 EXCEPT !.from = m_current, !.event = value,
                                         !.second = result.second, !.next = next,
                                         !.wdt = TRUE]
                IN  IF next \notin DOMAIN m_states
                    THEN Abort(tr)
                    ELSE IF m_states[next].action
                         THEN /\ m_current' = next
                              /\ trace' = [tr EXCEPT !.invoked = <<next>>,
                                                     !.passed = <<value.args>>]
                              /\ pc' = "handler"
                              /\ last' = [op |-> "step", ret |-> ""]
                              /\ UNCHANGED <<m_status, m_in_transition>>
                         ELSE Finish([tr EXCEPT !.success = "none"], FALSE)

\* transition(), the step operation of the driver: dequeue and dispatch.
\* m_stop_event.signal(), when the call whose trace is tr made it: a
\* thread that waits is woken, without one the signal is lost.
signal(tr) ==
    IF tr.signal /\ m_stop_event = "waiting" THEN "signalled" ELSE m_stop_event

Step ==
    /\ pc = "idle"
    /\ IF Len(m_events) = 0
       THEN /\ last' = [op |-> "step", ret |-> StateUnchanged]
            /\ trace' = Trace0
            /\ UNCHANGED <<m_current, m_status, m_events, m_in_transition, pc>>
       ELSE /\ m_events' = Tail(m_events)
            /\ Dispatch(Head(m_events))
    /\ m_stop_event' = signal(trace')
    /\ UNCHANGED <<config, sync>>

\* The running handler returns success.
Return(success) ==
    /\ pc = "handler"
    /\ Finish([trace EXCEPT !.success = IF success THEN "true" ELSE "false"], success)
    /\ m_stop_event' = signal(trace')
    /\ UNCHANGED <<config, m_events, sync>>

Next ==
    \/ \E check \in BOOLEAN : start(check)
    \/ Valid
    \/ Deterministic
    \/ halt
    \/ \E recurse \in BOOLEAN : stop(recurse)
    \/ wait
    \/ \E event \in Events, args \in Args : raise(event, args)
    \/ \E event \in Events, args \in Args : transition(event, args)
    \/ Step
    \/ \E success \in BOOLEAN : Return(success)

Spec == Init /\ [][Next]_vars

(* ------------------------- the builder calls --------------------------- *)

\* States, state ids and transitions the builder calls are made with.
StateInputs == {State(1, 0, TRUE), State(2, 1, FALSE)}

StateIds == {1, 2}

TransitionInputs == {Transition(event, next, "none") : event \in Events, next \in StateIds}

SeqsUpTo(S, n) == UNION {[1..k -> S] : k \in 0..n}

\* The engine the calls work on, and the engine they leave.
this ==
    [m_stt |-> m_stt, m_states |-> m_states, m_stop_states |-> m_stop_states,
     m_start_state |-> m_start_state, m_error_state |-> m_error_state,
     m_alphabet |-> m_alphabet]

Assign(f) ==
    /\ m_stt' = f.m_stt
    /\ m_states' = f.m_states
    /\ m_stop_states' = f.m_stop_states
    /\ m_start_state' = f.m_start_state
    /\ m_error_state' = f.m_error_state
    /\ m_alphabet' = f.m_alphabet

\* A freshly constructed engine.
BuildInit ==
    /\ m_stt = FsmBase0.m_stt
    /\ m_states = FsmBase0.m_states
    /\ m_stop_states = FsmBase0.m_stop_states
    /\ m_start_state = FsmBase0.m_start_state
    /\ m_error_state = FsmBase0.m_error_state
    /\ m_alphabet = FsmBase0.m_alphabet
    /\ m_current = 0
    /\ m_status = Stopped
    /\ m_events = << >>
    /\ m_in_transition = FALSE
    /\ pc = "idle"
    /\ trace = Trace0
    /\ last = [op |-> "FsmBase"]
    /\ m_stop_event = "none"
    /\ sync = Sync0

\* addTransition and addAlphabetSymbol take no lock: they run whether or
\* not a handler, inside transition(), holds the lock of the engine.
AddTransition(state, row) ==
    /\ pc # "aborted"
    /\ Assign(addTransition(this, state, row))
    /\ last' = [op |-> "addTransition", state |-> state, transition |-> row,
                ret |-> addTransitionReturns(this, state, row)]
    /\ trace' = IF pc = "handler" THEN trace ELSE Trace0
    /\ UNCHANGED <<m_current, m_status, m_events, m_in_transition, pc>>
    /\ UNCHANGED <<m_stop_event, sync>>

AddAlphabetSymbol(event) ==
    /\ pc # "aborted"
    /\ Assign(addAlphabetSymbol(this, event))
    /\ last' = [op |-> "addAlphabetSymbol", event |-> event,
                ret |-> addAlphabetSymbolReturns(this, event)]
    /\ trace' = IF pc = "handler" THEN trace ELSE Trace0
    /\ UNCHANGED <<m_current, m_status, m_events, m_in_transition, pc>>
    /\ UNCHANGED <<m_stop_event, sync>>

AddState(state) ==
    /\ pc = "idle"
    /\ Assign(addState(this, state))
    /\ last' = [op |-> "addState", state |-> state, ret |-> addStateReturns(this, state)]
    /\ trace' = Trace0
    /\ UNCHANGED <<m_current, m_status, m_events, m_in_transition, pc>>
    /\ UNCHANGED <<m_stop_event, sync>>

AddStates(states) ==
    /\ pc = "idle"
    /\ Assign(addStates(this, states).f)
    /\ last' = [op |-> "addStates", states |-> states, ret |-> addStates(this, states).ret]
    /\ trace' = Trace0
    /\ UNCHANGED <<m_current, m_status, m_events, m_in_transition, pc>>
    /\ UNCHANGED <<m_stop_event, sync>>

AddStopState(state) ==
    /\ pc = "idle"
    /\ addStopStateReturns(this, state) => Len(m_stop_states) < MaxStopStates
    /\ Assign(addStopState(this, state))
    /\ last' = [op |-> "addStopState", state |-> state, ret |-> addStopStateReturns(this, state)]
    /\ trace' = Trace0
    /\ UNCHANGED <<m_current, m_status, m_events, m_in_transition, pc>>
    /\ UNCHANGED <<m_stop_event, sync>>

AddStopStates(states) ==
    /\ pc = "idle"
    /\ Len(addStopStates(this, states).f.m_stop_states) <= MaxStopStates
    /\ Assign(addStopStates(this, states).f)
    /\ last' = [op |-> "addStopStates", states |-> states, ret |-> addStopStates(this, states).ret]
    /\ trace' = Trace0
    /\ UNCHANGED <<m_current, m_status, m_events, m_in_transition, pc>>
    /\ UNCHANGED <<m_stop_event, sync>>

BuildNext ==
    \/ \E state \in StateIds, row \in TransitionInputs : AddTransition(state, row)
    \/ \E event \in Events : AddAlphabetSymbol(event)
    \/ \E state \in StateInputs : AddState(state)
    \/ \E states \in SeqsUpTo(StateInputs, MaxList) : AddStates(states)
    \/ \E state \in StateIds : AddStopState(state)
    \/ \E states \in SeqsUpTo(StateIds, MaxList) : AddStopStates(states)

BuildSpec == BuildInit /\ [][BuildNext]_vars

(* ------------------- builder calls on a live engine -------------------- *)

\* The traffic light, driven by one thread while another calls
\* addAlphabetSymbol, and addTransition for the start state.
RaceInit == Init /\ this = TrafficLight

RaceNext ==
    \/ Next
    \/ \E row \in TransitionInputs : AddTransition(m_start_state, row)
    \/ \E event \in Events : AddAlphabetSymbol(event)

RaceSpec == RaceInit /\ [][RaceNext]_vars

(* ------------------------------ copying -------------------------------- *)

\* The copy constructor, FsmBase(const FsmBase &other): a new engine is
\* constructed and copy(other) is called on it; the variables describe
\* the engine `other' before the step and the new engine after it.
\* m_events, m_current, m_status and m_in_transition are assigned from
\* other.
Copy ==
    /\ pc = "idle"
    /\ Assign(copy(FsmBase0, this))
    /\ last' = [op |-> "copy"]
    /\ trace' = Trace0
    /\ UNCHANGED <<m_current, m_status, m_events, m_in_transition, pc>>
    /\ UNCHANGED <<m_stop_event, sync>>

CopyNext ==
    \/ Next
    \/ Copy

CopySpec == Init /\ [][CopyNext]_vars

(* ----------------------- locks of two engines -------------------------- *)

\* Two engines, named by their addresses, and two threads.
Engines == {1, 2}

Threads == {1, 2}

\* The engine whose lock a thread inside a call takes next.
Wanted(call) == IF call.held = 0 THEN call.first ELSE call.second

\* Everything but sync: the calls are followed up to their locks only.
engine == <<m_stt, m_states, m_stop_states, m_start_state, m_error_state, m_alphabet,
            m_current, m_status, m_events, m_in_transition, pc, trace, last, m_stop_event>>

\* a.copy(b), as in a = b: l1 locks this->m_lock, then l2 locks
\* other.m_lock.
copyLocks(thread, a, b) ==
    /\ sync.call[thread] = Idle0
    /\ sync' = [sync EXCEPT !.call[thread] =
                    [op |-> "copy", a |-> a, b |-> b, first |-> a, second |-> b, held |-> 0]]
    /\ UNCHANGED engine

\* swap(a, b): the lock of the engine at the lower address first.
swap(thread, a, b) ==
    /\ sync.call[thread] = Idle0
    /\ sync' = [sync EXCEPT !.call[thread] =
                    [op |-> "swap", a |-> a, b |-> b,
                     first |-> IF a < b THEN a ELSE b,
                     second |-> IF a < b THEN b ELSE a, held |-> 0]]
    /\ UNCHANGED engine

\* a.move(b), as in a = move(b): swap(*this, other).
move(thread, a, b) ==
    /\ sync.call[thread] = Idle0
    /\ sync' = [sync EXCEPT !.call[thread] =
                    [op |-> "move", a |-> a, b |-> b,
                     first |-> IF a < b THEN a ELSE b,
                     second |-> IF a < b THEN b ELSE a, held |-> 0]]
    /\ UNCHANGED engine

\* The thread takes the lock it wants next, once that lock is free.
Lock(thread) ==
    /\ sync.call[thread] # Idle0
    /\ sync.call[thread].held < 2
    /\ sync.m_lock[Wanted(sync.call[thread])] = 0
    /\ sync' = [sync EXCEPT !.m_lock[Wanted(sync.call[thread])] = thread,
                            !.call[thread].held = @ + 1]
    /\ UNCHANGED engine

\* Both locks held, the members are assigned or swapped, the locks are
\* released and the call returns.
Unlock(thread) ==
    /\ sync.call[thread] # Idle0
    /\ sync.call[thread].held = 2
    /\ sync' = [sync EXCEPT !.m_lock = [e \in Engines |-> 0], !.call[thread] = Idle0]
    /\ UNCHANGED engine

LockNext ==
    \/ \E thread \in Threads, a \in Engines : \E b \in Engines \ {a} : copyLocks(thread, a, b)
    \/ \E thread \in Threads, a \in Engines : \E b \in Engines \ {a} : swap(thread, a, b)
    \/ \E thread \in Threads, a \in Engines : \E b \in Engines \ {a} : move(thread, a, b)
    \/ \E thread \in Threads : Lock(thread)
    \/ \E thread \in Threads : Unlock(thread)

LockSpec == BuildInit /\ [][LockNext]_vars

(* ------------------------- rows with guards ---------------------------- *)

\* What the guard handler of a row is: none installed, or one that
\* returns true, or one that returns false.
Guards == {"none", "true", "false"}

\* The engine f, its rows added with the guard handlers install[index].
Install(f, install) ==
    [f EXCEPT !.m_stt = [index \in DOMAIN f.m_stt |->
                            Transition(f.m_stt[index].event, f.m_stt[index].next, install[index])]]

\* The engines that differ from the traffic light in the guards of their rows only.
GuardInit ==
    /\ \E install \in [DOMAIN TrafficLight.m_stt -> Guards] :
        /\ m_stt = Install(TrafficLight, install).m_stt
        /\ m_states = TrafficLight.m_states
        /\ m_stop_states = TrafficLight.m_stop_states
        /\ m_start_state = TrafficLight.m_start_state
        /\ m_error_state = TrafficLight.m_error_state
        /\ m_alphabet = TrafficLight.m_alphabet
    /\ m_current = 0
    /\ m_status = Stopped
    /\ m_events = << >>
    /\ m_in_transition = FALSE
    /\ pc = "idle"
    /\ trace = Trace0
    /\ last = [op |-> "FsmBase"]
    /\ m_stop_event = "none"
    /\ sync = Sync0

GuardSpec == GuardInit /\ [][Next]_vars

(* ----------------------- checked starts only --------------------------- *)

\* The engine driven by callers that start it with start(check = true)
\* only.
CheckedNext ==
    \/ start(TRUE)
    \/ halt
    \/ \E recurse \in BOOLEAN : stop(recurse)
    \/ wait
    \/ \E event \in Events, args \in Args : raise(event, args)
    \/ \E event \in Events, args \in Args : transition(event, args)
    \/ Step
    \/ \E success \in BOOLEAN : Return(success)

CheckedSpec == Init /\ [][CheckedNext]_vars

(* ------------------- lookup and accept, pass by pass ------------------- *)

\* Most states one walk up a parent chain visits before it is cut off.
MaxVisits == 4

\* Two states that are each other's parent: addState does not look at
\* the parent of the state it registers.
Cyclic ==
    Build(<<State(1, 2, TRUE), State(2, 1, TRUE)>>, <<<<1, 1, 2, "none">>>>, 1, 2, 1)

\* The n-th state above id in the parent chain, 0 when the chain has
\* ended or left the registered states.
RECURSIVE Up(_, _)
Up(id, n) ==
    IF id \notin DOMAIN m_states
    THEN 0
    ELSE IF n = 0 THEN id ELSE Up(m_states[id].parent, n - 1)

\* Every parent chain ends, and in registered states only.
Acyclic ==
    /\ \A id \in DOMAIN m_states : m_states[id].parent \in DOMAIN m_states \cup {0}
    /\ \A id \in DOMAIN m_states : Up(id, Cardinality(DOMAIN m_states)) = 0

\* An engine as the builder calls leave it, not started.
LookupInit ==
    /\ \E f \in Automata \cup {Cyclic} :
        /\ m_stt = f.m_stt
        /\ m_states = f.m_states
        /\ m_stop_states = f.m_stop_states
        /\ m_start_state = f.m_start_state
        /\ m_error_state = f.m_error_state
        /\ m_alphabet = f.m_alphabet
    /\ m_current = 0
    /\ m_status = Stopped
    /\ m_events = << >>
    /\ m_in_transition = FALSE
    /\ pc = "idle"
    /\ trace = Trace0
    /\ last = [op |-> "FsmBase"]
    /\ m_stop_event = "none"
    /\ sync = Sync0

\* No walk is in progress.
Returned == last.op \in {"lookup", "accept"} => last.done

\* lookup(state, event) is called, or the loop of accept(event) is entered
\* with state the current state: the walk is at its first state.
Enter(op, id, event) ==
    /\ Returned
    /\ last' = [op |-> op, state |-> id, event |-> event, visited |-> <<id>>,
                done |-> FALSE, ret |-> FALSE]
    /\ UNCHANGED <<config, m_current, m_status, m_events, m_in_transition, pc, trace,
                   m_stop_event, sync>>

\* Mutant of Pass: the walk goes on at the state it is at.
Pass_sameState(op) ==
    /\ last.op = op /\ ~last.done
    /\ LET state == m_states[last.visited[Len(last.visited)]]
       IN  IF SttIndex(state.id, last.event) \in DOMAIN m_stt
           THEN last' = [last EXCEPT !.done = TRUE, !.ret = TRUE]
           ELSE IF state.parent = 0
                THEN last' = [last EXCEPT !.done = TRUE, !.ret = FALSE]
                ELSE /\ Len(last.visited) < MaxVisits
                     /\ last' = [last EXCEPT !.visited = Append(@, state.id)]
    /\ UNCHANGED <<config, m_current, m_status, m_events, m_in_transition, pc, trace,
                   m_stop_event, sync>>

\* One call of lookup, or one pass of the loop of accept, at the state
\* the walk has come to: the row is found, or the state has no parent, or
\* the walk goes on at the parent.
Pass(op) ==
    /\ last.op = op /\ ~last.done
    /\ LET state == m_states[last.visited[Len(last.visited)]]
       IN  IF SttIndex(state.id, last.event) \in DOMAIN m_stt
           THEN last' = [last EXCEPT !.done = TRUE, !.ret = TRUE]
           ELSE IF state.parent = 0
                THEN last' = [last EXCEPT !.done = TRUE, !.ret = FALSE]
                ELSE /\ Len(last.visited) < MaxVisits
                     /\ last' = [last EXCEPT !.visited = Append(@, state.parent)]
    /\ UNCHANGED <<config, m_current, m_status, m_events, m_in_transition, pc, trace,
                   m_stop_event, sync>>

LookupNext ==
    \/ \E id \in DOMAIN m_states, event \in Events : Enter("lookup", id, event)
    \/ \E id \in DOMAIN m_states, event \in Events : Enter("accept", id, event)
    \/ Pass("lookup")
    \/ Pass("accept")

\* A call that has been made runs on until it returns.
LookupSpec ==
    LookupInit /\ [][LookupNext]_vars /\ WF_vars(Pass("lookup")) /\ WF_vars(Pass("accept"))

(* --------------------------- a driver loop ----------------------------- *)

\* The calls of Next, transition(event, args) being called by the state
\* handlers only.
LiveNext ==
    \/ \E check \in BOOLEAN : start(check)
    \/ Valid
    \/ Deterministic
    \/ halt
    \/ \E recurse \in BOOLEAN : stop(recurse)
    \/ wait
    \/ \E event \in Events, args \in Args : raise(event, args)
    \/ \E event \in Events, args \in Args : pc = "handler" /\ transition(event, args)
    \/ Step
    \/ \E success \in BOOLEAN : Return(success)

\* The traffic light with a driver that keeps calling transition() (the
\* step), so that a waiting event is dequeued, and handlers that return.
LiveSpec ==
    /\ RaceInit
    /\ [][LiveNext]_vars
    /\ WF_<<m_events, pc>>(Step)
    /\ WF_pc(\E success \in BOOLEAN : Return(success))

(* ------------------------------ claims --------------------------------- *)

\* The state itself followed by its ancestors, nearest first.
RECURSIVE Chain(_)
Chain(id) ==
    <<id>> \o (IF m_states[id].parent = 0 THEN << >> ELSE Chain(m_states[id].parent))

\* The states of the chain of id that have a row of their own on event.
Holders(id, event) ==
    {i \in 1..Len(Chain(id)) : SttIndex(Chain(id)[i], event) \in DOMAIN m_stt}

\* The row of the nearest state of the chain of id that has one on event.
NearestRow(id, event) ==
    LET i == CHOOSE i \in Holders(id, event) : \A j \in Holders(id, event) : i <= j
    IN  m_stt[SttIndex(Chain(id)[i], event)]

\* A transition() call that dequeued an event returned.
Stepped == pc = "idle" /\ last.op = "step" /\ trace.wdt

\* C1: when transition() (the step) dequeued an event on a Running engine,
\* lookup resolved a row for it and the call returned StateChanged, then
\* m_current is the next of the row of the nearest state of the chain of the
\* former current state, m_status is still Running, and the handler of the
\* destination state, and no other, was invoked.
C1_StateChangedIsNext ==
    (Stepped /\ last.ret = StateChanged /\ trace.second) =>
        /\ Holders(trace.from, trace.event.event) # {}
        /\ m_current = NearestRow(trace.from, trace.event.event).next
        /\ m_status = Running
        /\ trace.invoked = <<m_current>>

\* C1 witness: a step returned StateChanged on a row found on an ancestor.
C1_Witness ==
    /\ Stepped /\ last.ret = StateChanged /\ trace.second
    /\ SttIndex(trace.from, trace.event.event) \notin DOMAIN m_stt
    /\ m_current # trace.from

\* C2: a transition() call that returned after dequeuing an event returned
\* Fault exactly when the handler of the destination state returned false
\* or the destination state has no handler; after a call that returned
\* Fault, m_current is the id of the error state and m_status is Error.
C2_FaultIsHandlerFailure ==
    Stepped =>
        /\ (last.ret = Fault) <=> (trace.success = "false" \/ trace.success = "none")
        /\ (trace.success = "none") => (m_status = Error /\ ~m_states[trace.next].action)
        /\ (last.ret = Fault) => (m_current = m_error_state /\ m_status = Error)

\* C2 witness: a step whose destination has no handler returned Fault.
C2_Witness ==
    /\ Stepped /\ last.ret = Fault /\ trace.success = "none"
    /\ m_current = m_error_state /\ m_current # trace.next

\* C3: after a start(check) that passed its check, on an engine with a
\* start state, m_current is the id of the start state and m_status is
\* Running, whatever they were before.
C3_StartSetsCurrent ==
    [][(last'.op = "start" /\ m_start_state # 0 /\ (last'.check => valid))
           => (m_current' = m_start_state /\ m_status' = Running /\ last'.passed)]_vars

\* C3 witness: start passed on an engine whose status was Error and whose
\* current state was not the start state.
C3_Witness ==
    /\ pc = "idle" /\ last.op = "start" /\ last.passed /\ last.from = Error
    /\ m_current = m_start_state /\ m_status = Running /\ m_error_state # m_start_state

\* C4: start(check = true) on an engine for which valid() is false changes
\* none of m_status, m_current, m_events and m_in_transition.
C4_FailedStartIsNoOp ==
    [][(last'.op = "start" /\ last'.check /\ ~valid)
           => (~last'.passed /\ UNCHANGED <<m_status, m_current, m_events, m_in_transition>>)]_vars

\* C4 witness: a checked start was refused on an engine with a waiting event.
C4_Witness ==
    /\ pc = "idle" /\ last.op = "start" /\ last.check /\ ~last.passed
    /\ m_events # << >> /\ m_status = Error

\* The events of the queue that raise enqueued, in queue order.
Raised(events) == SelectSeq(events, LAMBDA value : ~value.front)

\* A call dequeued the head of the queue.
Dequeued == m_events # << >> /\ m_events' = Tail(m_events) /\ trace'.event = Head(m_events)

\* C5: the events that successful raise calls enqueued leave the queue in
\* the order of the calls: every call leaves the raised events of the queue
\* as they are, or appends the event of a successful raise behind them all,
\* or dequeues the oldest of them.
C5_RaiseIsFifo ==
    [][\/ Raised(m_events') = Raised(m_events)
       \/ /\ last'.op = "raise" /\ last'.ret
          /\ \E args \in Args :
                Raised(m_events') = Append(Raised(m_events), Event(last'.event, args, FALSE))
       \/ /\ Dequeued
          /\ Raised(m_events) # << >>
          /\ trace'.event = Head(Raised(m_events))
          /\ Raised(m_events') = Tail(Raised(m_events))]_vars

\* C5 witness: a step dequeued a raised event while a different event that
\* was raised later is still waiting.
C5_Witness ==
    /\ last.op = "step" /\ trace.wdt /\ ~trace.event.front
    /\ m_events # << >> /\ ~m_events[1].front
    /\ m_events[1] # trace.event

\* C6: an event that transition enqueued is dequeued before every raised
\* event that was waiting when it was enqueued: events leave the queue at
\* its head only, a successful transition puts its event at the head, and
\* no raised event of the queue ever precedes an event of a transition.
C6_TransitionBeforeRaised ==
    [][/\ (Len(m_events') < Len(m_events)) => Dequeued
       /\ (last'.op = "transition" /\ last'.ret) =>
              \E args \in Args : m_events' = <<Event(last'.event, args, TRUE)>> \o m_events
       /\ \A i, j \in 1..Len(m_events') :
              (i < j /\ ~m_events'[i].front) => ~m_events'[j].front]_vars

\* C6 witness (S5): the running handler called transition while a raised
\* event was waiting; its event is at the head, the raised event behind it.
C6_Witness ==
    /\ pc = "handler" /\ trace.rets = <<TRUE>>
    /\ last.op = "transition" /\ last.ret
    /\ Len(m_events) = 2 /\ m_events[1].front /\ ~m_events[2].front
    /\ m_events[1].event = last.event

\* C7, as claimed: the queue of a valid engine never holds more than one
\* event that transition enqueued.
C7_OneTransitionInFlight ==
    valid => Cardinality({i \in 1..Len(m_events) : m_events[i].front}) <= 1

\* C8: once a transition call of the running handler has returned true,
\* every further transition call of that handler invocation returns false
\* and leaves the queue as it is.
C8_SecondTransitionRejected ==
    [][(/\ pc = "handler" /\ pc' = "handler"
        /\ \E i \in 1..Len(trace.rets) : trace.rets[i]
        /\ Len(trace'.rets) = Len(trace.rets) + 1)
           => (/\ last'.op = "transition" /\ ~last'.ret
               /\ ~trace'.rets[Len(trace'.rets)]
               /\ m_events' = m_events)]_vars

\* C8 witness (S6): the first transition call of the running handler
\* returned true and its second one false.
C8_Witness ==
    /\ pc = "handler" /\ trace.rets = <<TRUE, FALSE>>
    /\ m_events # << >> /\ m_events[1].front /\ accept(m_status, m_current, last.event)

\* C9: raise(event) returns false and leaves m_events, m_current and
\* m_status unchanged when accept(event) is false, which it is whenever the
\* engine is not Running; otherwise it returns true and appends exactly one
\* record, carrying the event, at the back of the queue.
C9_RaiseChecksAccept ==
    [][(last'.op = "raise") =>
           IF m_status = Running /\ Holders(m_current, last'.event) # {}
           THEN /\ last'.ret
                /\ \E args \in Args : m_events' = Append(m_events, Event(last'.event, args, FALSE))
           ELSE /\ ~last'.ret
                /\ UNCHANGED <<m_events, m_current, m_status>>]_vars

\* C9 witness: a raise returned true and its event waits at the back of the
\* queue, behind a different event.
C9_Witness ==
    /\ last.op = "raise" /\ last.ret /\ Len(m_events) = 2
    /\ m_events[2].event = last.event /\ m_events[1].event # last.event

\* C10: accept(event) is true exactly when the engine is Running and
\* lookup from the current state finds a row; the loop of accept and the
\* recursion of lookup agree from every registered state.
C10_AcceptIsLookup ==
    (pc # "aborted") =>
        \A event \in Events :
            /\ accept(m_status, m_current, event)
                   = (m_status = Running /\ lookup(m_states[m_current], event).second)
            /\ \A id \in DOMAIN m_states :
                   accept(Running, id, event) = lookup(m_states[id], event).second

\* C10 witness: the Running engine accepts an event on which its current
\* state has no row of its own.
C10_Witness ==
    /\ pc = "idle" /\ m_status = Running
    /\ \E event \in Events :
           /\ SttIndex(m_current, event) \notin DOMAIN m_stt
           /\ accept(m_status, m_current, event)

\* Some state with a handler has, for some symbol of the alphabet, no row
\* on itself nor on any of its ancestors.
MissingRow ==
    \E id \in DOMAIN m_states : \E symbol \in m_alphabet :
        m_states[id].action /\ Holders(id, symbol) = {}

\* Some state has a row of its own on a symbol on which one of its
\* ancestors has a row as well.
EpsilonRow ==
    \E id \in DOMAIN m_states : \E symbol \in m_alphabet :
        SttIndex(id, symbol) \in DOMAIN m_stt /\ Cardinality(Holders(id, symbol)) >= 2

\* C11: valid() returns true exactly when m_status is Running or Stopped,
\* the state map is not empty, the start state, the error state and at
\* least one stop state are set, and deterministic() is true; it returns
\* false whenever m_status is Error.
C11_ValidIffComplete ==
    (last.op = "valid") =>
        /\ last.ret <=> /\ m_status \in {Running, Stopped}
                        /\ Cardinality(DOMAIN m_states) >= 1
                        /\ m_start_state \in DOMAIN m_states
                        /\ m_error_state \in DOMAIN m_states
                        /\ Len(m_stop_states) >= 1
                        /\ deterministic
        /\ (m_status = Error) => ~last.ret

\* C11 witness: valid() returned false on an engine in Error whose states,
\* start, stop and error state and rows are all in place.
C11_Witness ==
    /\ last.op = "valid" /\ ~last.ret /\ m_status = Error
    /\ m_start_state # 0 /\ m_error_state # 0 /\ m_stop_states # << >>
    /\ deterministic

\* C12: deterministic() returns false exactly when some state with a
\* handler lacks, for some symbol of the alphabet, a row on itself and on
\* all of its ancestors; a row missing on a state without handler does not
\* make it return false.
C12_DeterministicIsComplete ==
    (last.op = "deterministic") => (last.ret <=> ~MissingRow)

\* C12 witness: deterministic() returned true although a state without
\* handler has no row, its own or inherited, on a symbol of the alphabet.
C12_Witness ==
    /\ last.op = "deterministic" /\ last.ret
    /\ \E id \in DOMAIN m_states : \E symbol \in m_alphabet :
           ~m_states[id].action /\ Holders(id, symbol) = {}

\* C13: deterministic() returns false when some state has a direct row on
\* a symbol on which one of its ancestors has a row as well.
C13_EpsilonRejected ==
    (last.op = "deterministic" /\ EpsilonRow) => ~last.ret

\* C20: on an engine with an error state, stop(false) returns true and
\* changes nothing when m_status is not Running; with m_status Running and
\* the current state the error state or one of the stop states it sets
\* m_status to Stopped and returns true; otherwise it returns false and
\* m_status stays Running; m_current changes in no case.
C20_StopWithoutWait ==
    [][(last'.op = "stop" /\ m_error_state # 0) =>
           IF m_status # Running
           THEN last'.ret /\ UNCHANGED <<config, m_current, m_status, m_events, m_in_transition>>
           ELSE IF m_current = m_error_state \/ \E i \in DOMAIN m_stop_states : m_stop_states[i] = m_current
                THEN last'.ret /\ m_status' = Stopped /\ m_current' = m_current
                ELSE ~last'.ret /\ m_status' = Running /\ m_current' = m_current]_vars

\* C20 witness: stop(false) made Stopped a Running engine whose current
\* state is a stop state and not the error state.
C20_Witness ==
    /\ last.op = "stop" /\ last.from = Running /\ last.ret /\ m_status = Stopped
    /\ m_error_state # 0 /\ m_current # m_error_state
    /\ \E i \in DOMAIN m_stop_states : m_stop_states[i] = m_current

\* C14: addTransition(state, ...) with a state id that is not registered
\* returns false and leaves m_stt and m_alphabet as they were.
C14_UnregisteredStateRejected ==
    [][(last'.op = "addTransition" /\ last'.state \notin DOMAIN m_states)
           => (~last'.ret /\ UNCHANGED <<m_stt, m_alphabet>>)]_vars

\* C15: m_stt holds at most one row per pair of state id and event: an
\* addTransition on a pair that has a row returns false and leaves m_stt,
\* the next and guard of that row included, as it was; on any other pair,
\* whether it shares the event or the state id with rows of the table, it
\* returns true and adds the row under that pair, all other rows kept.
C15_OneRowPerStateAndEvent ==
    [][(last'.op = "addTransition") =>
           LET index == <<last'.state, last'.transition.event>>
           IN  IF index \in DOMAIN m_stt
               THEN ~last'.ret /\ m_stt' = m_stt
               ELSE /\ last'.ret
                    /\ DOMAIN m_stt' = DOMAIN m_stt \cup {index}
                    /\ m_stt'[index] = last'.transition
                    /\ \A k \in DOMAIN m_stt : m_stt'[k] = m_stt[k]]_vars

\* C15 witness: an addTransition with another next state was refused on a
\* pair that has a row; the table has a second row on the same event for
\* the other state id and a third on the other event for the same id.
C15_Witness ==
    /\ last.op = "addTransition" /\ ~last.ret
    /\ m_stt[<<last.state, last.transition.event>>].next # last.transition.next
    /\ \E state \in StateIds \ {last.state} : <<state, last.transition.event>> \in DOMAIN m_stt
    /\ \E event \in Events \ {last.transition.event} : <<last.state, event>> \in DOMAIN m_stt

\* C16: starting from an empty alphabet, an addTransition that returned
\* true adds the event of its transition to m_alphabet, addAlphabetSymbol
\* adds its symbol, and no other call, a refused addTransition included,
\* changes m_alphabet; the event of every row of m_stt is in m_alphabet.
C16_AlphabetIsEventsAndSymbols ==
    [][/\ m_alphabet' = m_alphabet \cup
              (IF last'.op = "addTransition" /\ last'.ret THEN {last'.transition.event}
               ELSE IF last'.op = "addAlphabetSymbol" THEN {last'.event}
               ELSE {})
       /\ {m_stt'[index].event : index \in DOMAIN m_stt'} \subseteq m_alphabet']_vars

\* C16 witness: an addTransition was refused on an engine whose alphabet
\* holds the events of two rows and a symbol that no row has.
C16_Witness ==
    /\ last.op = "addTransition" /\ ~last.ret
    /\ Cardinality(DOMAIN m_stt) = 2
    /\ m_alphabet = Events
    /\ {m_stt[index].event : index \in DOMAIN m_stt} = {last.transition.event}

\* C17: an addStates that returns false leaves m_states as it was.
C17_AddStatesAllOrNothing ==
    [][(last'.op = "addStates" /\ ~last'.ret) => m_states' = m_states]_vars

\* C18: addStopStates(ids) with an unregistered id among ids returns false
\* and leaves m_stop_states as it was; with all ids registered it returns
\* true and appends ids, in order, to m_stop_states.
C18_AddStopStatesAllOrNothing ==
    [][(last'.op = "addStopStates") =>
           IF \E i \in DOMAIN last'.states : last'.states[i] \notin DOMAIN m_states
           THEN ~last'.ret /\ m_stop_states' = m_stop_states
           ELSE last'.ret /\ m_stop_states' = m_stop_states \o last'.states]_vars

\* C18 witness: addStopStates was refused for a list whose first id is
\* registered and whose second is not, on a list that has an entry.
C18_Witness ==
    /\ last.op = "addStopStates" /\ ~last.ret
    /\ Len(last.states) = 2
    /\ last.states[1] \in DOMAIN m_states /\ last.states[2] \notin DOMAIN m_states
    /\ Len(m_stop_states) = 1

\* C19: addStopState(id) with id in m_stop_states already returns false
\* and leaves m_stop_states as it was.
C19_StopStateAddedOnce ==
    [][(last'.op = "addStopState" /\ \E i \in DOMAIN m_stop_states : m_stop_states[i] = last'.state)
           => (~last'.ret /\ m_stop_states' = m_stop_states)]_vars

\* The current state is one of the registered stop states.
InStopState == \E i \in DOMAIN m_stop_states : m_stop_states[i] = m_current

\* States, rows, start, stop and error state are as valid() wants them.
Complete ==
    /\ DOMAIN m_states # {}
    /\ m_start_state # 0 /\ m_error_state # 0 /\ m_stop_states # << >>
    /\ ~MissingRow

\* C22: on a complete engine, m_stop_event is signalled by every
\* transition() call that makes the error state or a registered stop state
\* the current state.
C22_SignalOnStopOrError ==
    (Complete /\ Stepped /\ last.ret \in {StateChanged, Fault}
         /\ (m_current = m_error_state \/ InStopState))
        => trace.signal

\* C23: after a transition() call that moved the engine into a registered
\* stop state, m_status is Stopped.
C23_StopStateStops ==
    (Stepped /\ last.ret = StateChanged /\ InStopState) => m_status = Stopped

\* C24: on a complete engine, a halt() or stop() call made while m_status
\* is Error leaves m_status Stopped.
C24_ErrorBecomesStopped ==
    [][(Complete /\ m_status = Error /\ last'.op \in {"halt", "stop"})
           => m_status' = Stopped]_vars

\* C25: start(check = true) on a complete engine whose m_status is Error
\* makes m_status Running and m_current the id of the start state.
C25_RestartAfterFault ==
    [][(m_status = Error /\ Complete /\ last'.op = "start" /\ last'.check)
           => (m_status' = Running /\ m_current' = m_start_state)]_vars

\* C26: on a complete engine, m_status is Stopped after halt(), whatever
\* it was before.
C26_HaltStops ==
    [][(Complete /\ last'.op = "halt") => m_status' = Stopped]_vars

\* C30: on a complete engine, a transition() call (the step) made while
\* m_status is not Running leaves m_events and m_in_transition as they were.
C30_IdleStepKeepsQueue ==
    [][(Complete /\ pc = "idle" /\ m_status # Running /\ last'.op = "step")
           => UNCHANGED <<m_events, m_in_transition>>]_vars

\* C27: the engine made by copying has the state map, stop state list,
\* start and error state, status, current state, event queue, transition
\* table and alphabet of the engine it was copied from, and valid(),
\* deterministic() and accept() answer on it as they do on the source.
C27_CopyIsEqual ==
    [][(last'.op = "copy") =>
           /\ UNCHANGED <<m_states, m_stop_states, m_start_state, m_error_state, m_status,
                          m_current, m_events, m_stt, m_in_transition>>
           /\ deterministic' = deterministic
           /\ valid' = valid
           /\ \A event \in Events :
                  accept(m_status, m_current, event)' = accept(m_status, m_current, event)
           /\ m_alphabet' = m_alphabet]_vars

\* C29: while a transition() call (the step) is in progress and holds the
\* lock of the engine, its handler running, no call changes m_stt or
\* m_alphabet.
C29_TableLockedDuringStep ==
    [][(pc = "handler") => UNCHANGED <<m_stt, m_alphabet>>]_vars

\* C21: on an engine with an error state, the stop(true) call that was
\* woken from m_stop_event.wait(lock) does not wait again: it returns what
\* stop(false) returns in the state it finds when it holds the lock again,
\* true with m_status Stopped if the engine is not Running or its current
\* state is the error state or a stop state, and false with m_status
\* Running otherwise.
C21_StopWaitsOnce ==
    [][(last'.op = "stop" /\ last'.waited /\ m_error_state # 0) =>
           /\ m_stop_event = "signalled" /\ m_stop_event' = "none"
           /\ m_current' = m_current
           /\ IF m_status # Running
              THEN last'.ret /\ m_status' = m_status
              ELSE IF m_current = m_error_state \/ InStopState
                   THEN last'.ret /\ m_status' = Stopped
                   ELSE ~last'.ret /\ m_status' = Running]_vars

\* C21 witness: the woken stop(true) returned false on a Running engine:
\* a later step had left the stop state before the waiter held the lock.
C21_Witness ==
    /\ last.op = "stop" /\ last.waited /\ ~last.ret
    /\ m_status = Running /\ m_stop_event = "none"
    /\ m_error_state # 0 /\ m_current # m_error_state /\ ~InStopState

\* A thread is inside copy, move or swap and the lock it wants next is
\* held by the other thread.
Blocked(thread) ==
    /\ sync.call[thread] # Idle0
    /\ sync.call[thread].held < 2
    /\ sync.m_lock[Wanted(sync.call[thread])] \notin {0, thread}

\* C28: two threads that copy, move or swap the same two engines never
\* wait for each other's lock.
C28_NoDeadlock == ~(\A thread \in Threads : Blocked(thread))

\* C31: on a complete engine, every transition() call (the step) resets
\* the watchdog, with an empty queue and with m_status not Running as well.
C31_StepResetsWatchdog ==
    (Complete /\ last.op = "step") => trace.wdt

\* C32: guards have no influence.  What accept answers, what raise,
\* transition and the step return and what the step makes the current
\* state are given by the engine with its guards left out (Holders and
\* NearestRow(...).next read the keys and the next of the rows only), so
\* that engines that differ in their guards only answer alike on every
\* sequence of calls.
C32_GuardsIgnored ==
    [][/\ (pc # "aborted") =>
              \A event \in Events :
                  accept(m_status, m_current, event)
                      = (m_status = Running /\ Holders(m_current, event) # {})
       /\ (last'.op = "raise") =>
              last'.ret = (m_status = Running /\ Holders(m_current, last'.event) # {})
       /\ (last'.op = "transition") =>
              last'.ret = (m_status = Running /\ Holders(m_current, last'.event) # {}
                               /\ ~m_in_transition)
       /\ (pc = "idle" /\ last'.op = "step") =>
              IF m_events = << >>
              THEN last'.ret = StateUnchanged /\ m_current' = m_current
              ELSE IF m_status # Running
                   THEN last'.ret = m_status /\ m_current' = m_current
                   ELSE /\ Holders(m_current, Head(m_events).event) # {}
                        /\ m_current' = NearestRow(m_current, Head(m_events).event).next
                        /\ pc' = "handler"
       /\ (pc = "handler" /\ pc' = "idle") =>
              \/ trace'.success = "true" /\ last'.ret = StateChanged /\ m_current' = m_current
              \/ trace'.success = "false" /\ last'.ret = Fault /\ m_current' = m_error_state]_vars

\* C32 witness: a step took a row whose guard returns false, the handler
\* of the destination returned true, and the step returned StateChanged.
C32_Witness ==
    /\ Stepped /\ last.ret = StateChanged /\ trace.second
    /\ m_stt[SttIndex(trace.from, trace.event.event)].guard = "false"
    /\ m_current = m_stt[SttIndex(trace.from, trace.event.event)].next
    /\ m_current # trace.from

\* C33: a transition() call (the step) that dequeued an event on a
\* Running engine takes the row of the current state when it has one on
\* the event, whatever rows its ancestors have; without one it takes the
\* row of the nearest ancestor that has one; the destination of that row
\* is the state whose handler runs and the current state after a
\* successful step.
C33_NearestRowIsTaken ==
    (last.op = "step" /\ trace.wdt /\ last.ret \notin {Stopped, Error}) =>
        LET event == trace.event.event
            chain == Chain(trace.from)
        IN  /\ IF SttIndex(trace.from, event) \in DOMAIN m_stt
               THEN trace.second /\ trace.next = m_stt[SttIndex(trace.from, event)].next
               ELSE IF \E i \in 2..Len(chain) : SttIndex(chain[i], event) \in DOMAIN m_stt
                    THEN /\ trace.second
                         /\ \E i \in 2..Len(chain) :
                                /\ SttIndex(chain[i], event) \in DOMAIN m_stt
                                /\ \A j \in 1..(i - 1) : SttIndex(chain[j], event) \notin DOMAIN m_stt
                                /\ trace.next = m_stt[SttIndex(chain[i], event)].next
                    ELSE ~trace.second
            /\ (trace.second /\ (pc = "handler" \/ last.ret = StateChanged))
                   => m_current = trace.next

\* C33 witness (S3, one level deeper): the current state had no row on the
\* event, its parent and its grandparent each had one; the step took the
\* parent's row and returned StateChanged.
C33_Witness ==
    /\ Stepped /\ last.ret = StateChanged
    /\ Len(Chain(trace.from)) = 3
    /\ SttIndex(trace.from, trace.event.event) \notin DOMAIN m_stt
    /\ SttIndex(Chain(trace.from)[2], trace.event.event) \in DOMAIN m_stt
    /\ SttIndex(Chain(trace.from)[3], trace.event.event) \in DOMAIN m_stt
    /\ m_current = m_stt[SttIndex(Chain(trace.from)[2], trace.event.event)].next
    /\ m_current # m_stt[SttIndex(Chain(trace.from)[3], trace.event.event)].next

\* C34: on an engine that is started by start(check = true) only, every
\* event that transition() (the step) dequeues while m_status is Running
\* has a row on the current state or on one of its ancestors: lookup never
\* misses.
C34_DequeuedEventHasRow ==
    [][(m_status = Running /\ pc = "idle" /\ Dequeued) => trace'.second]_vars

\* C35: in every engine that addState, addStates and addTransition calls
\* build, the next of every row of m_stt whose state is registered is the
\* id of a registered state.
C35_NextIsRegistered ==
    \A index \in DOMAIN m_stt :
        (index[1] \in DOMAIN m_states) => m_stt[index].next \in DOMAIN m_states

\* C36: on an engine whose error state has a handler, a transition() call
\* (the step) that returned Fault invoked the handler of the error state
\* exactly once, after the handler of the destination if that has one,
\* and with the arguments stored with the dequeued event; so it is when
\* the destination is the error state itself.
C36_ErrorHandlerRunsOnce ==
    (Stepped /\ last.ret = Fault /\ m_states[m_error_state].action) =>
        /\ trace.invoked =
               (IF trace.success = "none" THEN << >> ELSE <<trace.next>>) \o <<m_error_state>>
        /\ Len(trace.passed) = Len(trace.invoked)
        /\ \A i \in 1..Len(trace.passed) : trace.passed[i] = trace.event.args

\* C36 witness: the handler of the error state, as the destination of the
\* row, returned false and was invoked a second time, with the argument 1
\* of the dequeued event.
C36_Witness ==
    /\ Stepped /\ last.ret = Fault /\ trace.success = "false"
    /\ trace.next = m_error_state
    /\ trace.invoked = <<m_error_state, m_error_state>>
    /\ trace.event.args = 1 /\ trace.passed = <<1, 1>>

\* C37: on an engine whose parent chains are acyclic and stay within the
\* registered states, a lookup(state, event) call and the loop of
\* accept(event) visit no state twice, return only at a state that has a
\* row on the event (true) or no parent (false), with the answer of
\* lookup(state, event).second, and do return.
C37_WalkTerminates ==
    /\ [](Acyclic /\ last.op \in {"lookup", "accept"} =>
            /\ \A i, j \in 1..Len(last.visited) : i # j => last.visited[i] # last.visited[j]
            /\ last.visited = SubSeq(Chain(last.state), 1, Len(last.visited))
            /\ last.done =>
                   LET at == last.visited[Len(last.visited)]
                   IN  /\ last.ret = (SttIndex(at, last.event) \in DOMAIN m_stt)
                       /\ ~last.ret => m_states[at].parent = 0
                       /\ last.ret = lookup(m_states[last.state], last.event).second
                       /\ last.ret = acceptLoop(m_states[last.state], last.event))
    /\ (Acyclic /\ last.op \in {"lookup", "accept"}) ~> Returned

\* C37 witness: a lookup that started at the bottom of a chain of three
\* states returned at the top, where it found the first row on the event.
C37_Witness ==
    /\ last.op = "lookup" /\ last.done /\ last.ret
    /\ Len(last.visited) = 3
    /\ m_states[last.visited[3]].parent = 0
    /\ SttIndex(last.visited[1], last.event) \notin DOMAIN m_stt
    /\ SttIndex(last.visited[2], last.event) \notin DOMAIN m_stt

\* C38: m_status, which status() returns, is one of Stopped, Running and
\* Error in every state: StateUnchanged, StateChanged and Fault are
\* returned by transition() (the step) and never stored.
C38_StatusIsLatched == m_status \in {Stopped, Running, Error}

\* C38 witness: a step has returned Fault and m_status is Error.
C38_Witness ==
    /\ Stepped /\ last.ret = Fault /\ m_status = Error
    /\ trace.success = "false"

\* C39: while the handler that transition() (the step) invoked is running,
\* the current state is the destination of the row, and a
\* transition(event, args) call of the handler is answered by accept for
\* that state, not for the state the step started from: it returns true
\* exactly when the destination or one of its ancestors has a row on the
\* event and no transition of this handler is pending.
C39_AcceptSeesDestination ==
    [][(pc = "handler") =>
           /\ m_current = trace.next /\ trace.invoked = <<trace.next>>
           /\ \A event \in Events :
                  accept(m_status, m_current, event) = (Holders(trace.next, event) # {})
           /\ (last'.op = "transition") =>
                  last'.ret = (Holders(trace.next, last'.event) # {} /\ ~m_in_transition)]_vars

\* C39 witness: the running handler's transition call returned true for
\* an event that the destination accepts and the state the step started
\* from does not.
C39_Witness ==
    /\ pc = "handler" /\ last.op = "transition" /\ last.ret
    /\ trace.from # trace.next
    /\ Holders(trace.next, last.event) # {}
    /\ Holders(trace.from, last.event) = {}

\* raise(event, args) has just returned true and its record is the only
\* raised one of its value in the queue.
JustRaised(event, args) ==
    /\ last.op = "raise" /\ last.ret
    /\ m_events # << >> /\ m_events[Len(m_events)] = Event(event, args, FALSE)
    /\ Cardinality({i \in 1..Len(m_events) : m_events[i] = Event(event, args, FALSE)}) = 1

\* A transition() call (the step) has dequeued a raised record of that value.
RaisedDequeued(event, args) ==
    last.op \in {"step", "abort"} /\ trace.wdt /\ trace.event = Event(event, args, FALSE)

\* No transition(event, args) call returns true.
NoTransition == ~(last'.op = "transition" /\ last'.ret)

\* C40, as claimed: with a driver that keeps stepping, an event that a
\* successful raise enqueued is dequeued, or the engine does not stay
\* Running, whatever transition calls are made.
C40_RaisedIsDequeued ==
    \A event \in Events, args \in Args :
        JustRaised(event, args) ~>
            (RaisedDequeued(event, args) \/ m_status # Running \/ pc = "aborted")

\* C40, amended: so it is when from some point on no transition call
\* returns true.
C40_RaisedIsDequeuedAmended ==
    <>[][NoTransition]_m_events =>
        \A event \in Events, args \in Args :
            JustRaised(event, args) ~>
                (RaisedDequeued(event, args) \/ m_status # Running \/ pc = "aborted")

\* C40 witness: on the Running engine a step has dequeued the raised
\* event (1, 1), the last of the queue, and the handler of state 3 runs.
C40_Witness ==
    /\ pc = "handler" /\ m_status = Running
    /\ RaisedDequeued(1, 1)
    /\ m_events = << >> /\ m_current = 3

====
